---- MODULE Spec2Model ----
(***************************************************************************)
(* Model of the Transcriber class of src/transcriber.js: per-peer audio    *)
(* buffering, the voice-activity gate, the bounded job queue with its      *)
(* single worker, the two transcription providers, and the room sessions   *)
(* that follow peer presence.                                              *)
(*                                                                         *)
(* Representation.  A PCM buffer is a sequence of runs [n, a]: n 16-bit    *)
(* samples of value a.  Buffer.concat is sequence concatenation.  A        *)
(* duration is held exactly, as a whole number of 1/UnitsPerSecond         *)
(* seconds (the code adds samples.length / sampleRate in floating point).  *)
(* A text is a sequence of one-character strings.  Date.now() is the       *)
(* variable now, in milliseconds.                                          *)
(***************************************************************************)
EXTENDS Integers, Sequences, FiniteSets, TLC

\* ---------------------------------------------------------------- bounds
MaxClock == 1
MaxJobs == 5
MaxOrphans == 1
MaxFlushJobs == 2

Sockets == {"s1", "s2"}
Rooms == {"r1", "r2"}

\* The user id each socket presents with its offer ("": none).
UserOf(socketId) == IF socketId = "s1" THEN "alice" ELSE ""

\* --------------------------------------------------- program constants
bufferDuration == 5
VadThreshold == 50
QueueCapacity == 3
DefaultSampleRate == 48000
DefaultChannelCount == 1

SampleRates == {48000, 16000}
UnitsPerSecond == CHOOSE m \in SampleRates : \A r \in SampleRates : m % r = 0

\* The frames the audio sinks deliver, n samples of value a each: 3 s loud,
\* 2 s silent, and 6 s loud at another rate and channel count.
FrameLoud == [n |-> 144000, a |-> 120, sampleRate |-> 48000, channelCount |-> 1]
FrameSilent == [n |-> 96000, a |-> 0, sampleRate |-> 48000, channelCount |-> 1]
FrameLong == [n |-> 96000, a |-> -80, sampleRate |-> 16000, channelCount |-> 2]
Frames == {FrameLoud, FrameSilent, FrameLong}
NoFrame == [n |-> 0, a |-> 0, sampleRate |-> 0, channelCount |-> 0]

None == "none"

\* ------------------------------------------------------------------ text
UpperAlpha == <<"A","B","C","D","E","F","G","H","I","J","K","L","M",
                "N","O","P","Q","R","S","T","U","V","W","X","Y","Z">>
LowerAlpha == <<"a","b","c","d","e","f","g","h","i","j","k","l","m",
                "n","o","p","q","r","s","t","u","v","w","x","y","z">>

IsSpace(c) == c \in {" ", "\n", "\t"}

\* String.prototype.trim
RECURSIVE TrimStart(_)
TrimStart(t) ==
  IF t # <<>> /\ IsSpace(Head(t)) THEN TrimStart(Tail(t)) ELSE t

RECURSIVE TrimEnd(_)
TrimEnd(t) ==
  IF t # <<>> /\ IsSpace(t[Len(t)]) THEN TrimEnd(SubSeq(t, 1, Len(t) - 1)) ELSE t

Trim(t) == TrimEnd(TrimStart(t))

\* String.prototype.toLowerCase
LowerChar(c) ==
  IF \E i \in 1..26 : UpperAlpha[i] = c
  THEN LowerAlpha[CHOOSE i \in 1..26 : UpperAlpha[i] = c]
  ELSE c

ToLowerCase(t) == [i \in 1..Len(t) |-> LowerChar(t[i])]

hallucinations ==
  { <<"t","h","a","n","k"," ","y","o","u">>,
    <<"t","h","a","n","k","s"," ","f","o","r"," ","w","a","t","c","h","i","n","g">>,
    <<"t","h","a","n","k","s"," ","f","o","r"," ","l","i","s","t","e","n","i","n","g">>,
    <<"s","u","b","s","c","r","i","b","e">>,
    <<"l","i","k","e"," ","a","n","d"," ","s","u","b","s","c","r","i","b","e">>,
    <<"s","e","e"," ","y","o","u"," ","n","e","x","t"," ","t","i","m","e">>,
    <<"b","y","e">>,
    <<"g","o","o","d","b","y","e">>,
    <<"t","h","e"," ","e","n","d">> }

\* The filter of transcribeWithGroq: TRUE when the text is dropped.
IsHallucination(transcription) ==
  LET text == ToLowerCase(Trim(transcription))
  IN \E h \in hallucinations : text = h \/ text = h \o <<".">>

\* ------------------------------------------------------- voice activity
Abs(x) == IF x < 0 THEN -x ELSE x

RECURSIVE SumAbs(_)
SumAbs(runs) ==
  IF runs = <<>> THEN 0 ELSE Head(runs).n * Abs(Head(runs).a) + SumAbs(Tail(runs))

RECURSIVE NumSamples(_)
NumSamples(runs) ==
  IF runs = <<>> THEN 0 ELSE Head(runs).n + NumSamples(Tail(runs))

\* As hasVoiceActivity with sum += samples[i] in place of Math.abs.
RECURSIVE SumSigned(_)
SumSigned(runs) ==
  IF runs = <<>> THEN 0 ELSE Head(runs).n * Head(runs).a + SumSigned(Tail(runs))

hasVoiceActivity_NoAbs(pcmBuffer) ==
  /\ NumSamples(pcmBuffer) > 0
  /\ SumSigned(pcmBuffer) > VadThreshold * NumSamples(pcmBuffer)

\* avgEnergy = sum / samples.length > 50; 0/0 is NaN, and NaN > 50 is false.
hasVoiceActivity(pcmBuffer) ==
  /\ NumSamples(pcmBuffer) > 0
  /\ SumAbs(pcmBuffer) > VadThreshold * NumSamples(pcmBuffer)

\* ------------------------------------------------------------ container
\* The 16-bit little-endian words of a 32-bit field.
Lo16(x) == x % 65536
Hi16(x) == (x \div 65536) % 65536

\* Two ASCII characters read as one little-endian 16-bit word.
Word(c1, c2) == c1 + 256 * c2

\* A word of the file as Int16Array reads it.
AsInt16(w) == IF w >= 32768 THEN w - 65536 ELSE w

ByteLength(pcmBuffer) == 2 * NumSamples(pcmBuffer)

\* As WavHeader with byteRate = sampleRate * (bitsPerSample / 8).
WavHeader_ByteRateOfOneChannel(pcmBuffer, sampleRate, channelCount) ==
  LET bitsPerSample == 16
      byteRate == sampleRate * (bitsPerSample \div 8)
      blockAlign == channelCount * (bitsPerSample \div 8)
      dataSize == ByteLength(pcmBuffer)
      fileSize == 36 + dataSize
  IN << Word(82, 73), Word(70, 70),
        Lo16(fileSize), Hi16(fileSize),
        Word(87, 65), Word(86, 69),
        Word(102, 109), Word(116, 32),
        Lo16(16), Hi16(16),
        1, channelCount % 65536,
        Lo16(sampleRate), Hi16(sampleRate),
        Lo16(byteRate), Hi16(byteRate),
        blockAlign % 65536, bitsPerSample,
        Word(100, 97), Word(116, 97),
        Lo16(dataSize), Hi16(dataSize) >>

\* The 44-byte header of writeWav, as its 22 words.
WavHeader(pcmBuffer, sampleRate, channelCount) ==
  LET bitsPerSample == 16
      byteRate == sampleRate * channelCount * (bitsPerSample \div 8)
      blockAlign == channelCount * (bitsPerSample \div 8)
      dataSize == ByteLength(pcmBuffer)
      fileSize == 36 + dataSize
  IN << Word(82, 73), Word(70, 70),
        Lo16(fileSize), Hi16(fileSize),
        Word(87, 65), Word(86, 69),
        Word(102, 109), Word(116, 32),
        Lo16(16), Hi16(16),
        1, channelCount % 65536,
        Lo16(sampleRate), Hi16(sampleRate),
        Lo16(byteRate), Hi16(byteRate),
        blockAlign % 65536, bitsPerSample,
        Word(100, 97), Word(116, 97),
        Lo16(dataSize), Hi16(dataSize) >>

writeWav(pcmBuffer, sampleRate, channelCount) ==
  [header |-> WavHeader(pcmBuffer, sampleRate, channelCount), data |-> pcmBuffer]

\* fs.readFileSync(audioPath) seen as 16-bit samples: header words, then data.
FileSamples(wav) ==
  [i \in 1..Len(wav.header) |-> [n |-> 1, a |-> AsInt16(wav.header[i])]] \o wav.data

\* Buffer.concat: one flat buffer; adjacent runs of one value are one run.
RECURSIVE Concat(_)
Concat(chunks) ==
  IF Len(chunks) <= 1 THEN chunks
  ELSE LET rest == Concat(Tail(chunks))
           h == Head(chunks)
       IN IF h.a = Head(rest).a
          THEN <<[n |-> h.n + Head(rest).n, a |-> h.a]>> \o Tail(rest)
          ELSE <<h>> \o rest

\* ----------------------------------------------------------------- state
VARIABLES
  provider,      \* this.provider after the constructor
  groq,          \* TRUE when this.groq holds a client
  now,           \* Date.now(), milliseconds
  peers,         \* this.peers: socket id -> peerData
  orphans,       \* peerData objects replaced in this.peers, never closed
  queue,         \* this.queue
  isProcessing,  \* this.isProcessing
  calls,         \* provider calls in flight
  tmpFiles,      \* files of this.tmpDir: path -> container
  tmpDir,        \* what fs.writeFileSync meets in this.tmpDir: "ok", or
                 \* the error it throws
  unlinks,       \* fs.unlink requests issued and not yet carried out
  sessions,      \* this.sessions: room id -> session
  files,         \* files of this.transcriptsDir: path -> document
  emitted,       \* io.to(room).emit('transcription', ...) of the last step
  nextId,        \* enqueue order of the next job
  handed,        \* ids of the jobs processQueue shifted, in that order
  evicted,       \* ids of the jobs the overflow check shifted, in that order
  lastOp         \* the handler that ran last, with what it observed

vars == <<provider, groq, now, peers, orphans, queue, isProcessing, calls,
          tmpDir, tmpFiles, unlinks, sessions, files, emitted, nextId, handed,
          evicted, lastOp>>

\* A map with key k removed.
Without(f, k) == [x \in DOMAIN f \ {k} |-> f[x]]

\* A map with key k set to v.
With(f, k, v) == (k :> v) @@ f

\* -------------------------------------------------------------- sessions
\* Date.prototype.toISOString: the fields of the time, to the millisecond.
ToISOString(t) == [sec |-> t \div 1000, ms |-> t % 1000]

\* The endedAt of a document that has none.
NoTime == [sec |-> -1, ms |-> -1]

\* `${roomId}_${startedAt.toISOString().replace(/[:.]/g, '-')}.yaml`
SessionFilePath(roomId, startedAt) ==
  LET iso == ToISOString(startedAt)
  IN <<roomId, "_", iso.sec, "-", iso.ms, "Z.yaml">>

\* startSession for a room without a session.
openSession(sess, fls, roomId, t) ==
  LET filePath == SessionFilePath(roomId, t)
      session == [filePath |-> filePath, startedAt |-> t,
                  transcriptions |-> <<>>]
      sessionData == [room |-> roomId, startedAt |-> ToISOString(t),
                      endedAt |-> NoTime, transcriptions |-> <<>>]
  IN [sessions |-> With(sess, roomId, session),
      files |-> With(fls, filePath, sessionData),
      ret |-> session]

\* As startSession without its `if (this.sessions.has(roomId))`.
startSession_NoCheck(sess, fls, roomId, t) ==
  openSession(Without(sess, roomId), fls, roomId, t)

\* startSession, on the pair of maps (sessions, files); ret is its result.
startSession(sess, fls, roomId, t) ==
  IF roomId \in DOMAIN sess
  THEN [sessions |-> sess, files |-> fls, ret |-> sess[roomId]]
  ELSE openSession(sess, fls, roomId, t)

endSession(sess, fls, roomId, t) ==
  IF roomId \in DOMAIN sess
  THEN LET session == sess[roomId]
           sessionData == [room |-> roomId,
                           startedAt |-> ToISOString(session.startedAt),
                           endedAt |-> ToISOString(t),
                           transcriptions |-> session.transcriptions]
       IN [sessions |-> Without(sess, roomId),
           files |-> With(fls, session.filePath, sessionData)]
  ELSE [sessions |-> sess, files |-> fls]

\* As saveTranscription writing the new entry alone to the file.
saveTranscription_WriteEntryOnly(sess, fls, roomId, userId, text, timestamp) ==
  IF roomId \notin DOMAIN sess
  THEN [sessions |-> sess, files |-> fls]
  ELSE LET session == sess[roomId]
           entry == [timestamp |-> ToISOString(timestamp), userId |-> userId,
                     text |-> text]
           sessionData == [room |-> roomId,
                           startedAt |-> ToISOString(session.startedAt),
                           endedAt |-> NoTime,
                           transcriptions |-> <<entry>>]
       IN [sessions |-> [sess EXCEPT ![roomId].transcriptions =
                                        Append(@, entry)],
           files |-> With(fls, session.filePath, sessionData)]

saveTranscription(sess, fls, roomId, userId, text, timestamp) ==
  IF roomId \notin DOMAIN sess
  THEN [sessions |-> sess, files |-> fls]
  ELSE LET session == sess[roomId]
           entry == [timestamp |-> ToISOString(timestamp), userId |-> userId,
                     text |-> text]
           list == Append(session.transcriptions, entry)
           sessionData == [room |-> roomId,
                           startedAt |-> ToISOString(session.startedAt),
                           endedAt |-> NoTime,
                           transcriptions |-> list]
       IN [sessions |-> [sess EXCEPT ![roomId].transcriptions = list],
           files |-> With(fls, session.filePath, sessionData)]

roomHasPeers(prs, roomId) == \E s \in DOMAIN prs : prs[s].roomId = roomId

\* ---------------------------------------------------------------- worker
\* The coordinator state the queue and its worker act on, as one record;
\* broadcasts collects what the running handler emits.
State ==
  [queue |-> queue, isProcessing |-> isProcessing, calls |-> calls,
   tmpFiles |-> tmpFiles, unlinks |-> unlinks, sessions |-> sessions,
   files |-> files, broadcasts |-> <<>>, handed |-> handed,
   evicted |-> evicted, tmpDir |-> tmpDir]

\* `${item.socketId}-${Date.now()}.wav` under this.tmpDir
WavPath(socketId, t) == <<socketId, "-", t, ".wav">>

\* transcribeWithGroq up to its await: TRUE when the remote call is issued.
transcribeWithGroqCheck(audioFile) == hasVoiceActivity(FileSamples(audioFile))

\* transcribeWithGroq after its await, on the text the service returned.
transcribeWithGroqResult(transcription) ==
  IF IsHallucination(transcription) THEN <<>> ELSE transcription

\* transcribeWithLocalWhisper on the subprocess outcome: the 'close' handler
\* and the 'error' handler.
transcribeWithLocalWhisperResult(out) ==
  IF out.kind = "error" \/ out.code # 0
  THEN [ok |-> FALSE, transcript |-> <<>>]
  ELSE IF out.hasTxt
       THEN [ok |-> TRUE, transcript |-> out.txt]
       ELSE [ok |-> TRUE, transcript |-> <<>>]

RECURSIVE processQueue(_, _)

\* As finishJob with a catch block that puts the failed job back in the queue.
finishJob_Retry(st, item, wavPath, res, t) ==
  LET st1 == [st EXCEPT !.unlinks = @ \cup {wavPath}, !.isProcessing = FALSE,
                        !.queue = IF res.ok THEN @ ELSE <<item>> \o @]
  IN processQueue(st1, t)

\* As finishJob with a finally block that leaves the queue to the next
\* enqueue.
finishJob_NoDrain(st, item, wavPath, res, t) ==
  [st EXCEPT !.unlinks = @ \cup {wavPath}, !.isProcessing = FALSE]

\* As finishJob with the transcript saved and broadcast as received.
finishJob_NoTrim(st, item, wavPath, res, t) ==
  LET text == res.transcript
      saved == saveTranscription(st.sessions, st.files, item.roomId,
                                 item.userId, text, t)
      st1 == IF res.ok /\ Trim(text) # <<>>
             THEN [st EXCEPT !.sessions = saved.sessions,
                             !.files = saved.files,
                             !.broadcasts = Append(@,
                                 [room |-> item.roomId, userId |-> item.userId,
                                  text |-> text, timestamp |-> t])]
             ELSE st
      st2 == [st1 EXCEPT !.unlinks = @ \cup {wavPath}, !.isProcessing = FALSE]
  IN processQueue(st2, t)

\* processQueue after its await: the rest of the try block, catch and finally.
finishJob(st, item, wavPath, res, t) ==
  LET text == Trim(res.transcript)
      saved == saveTranscription(st.sessions, st.files, item.roomId,
                                 item.userId, text, t)
      st1 == IF res.ok /\ text # <<>>
             THEN [st EXCEPT !.sessions = saved.sessions,
                             !.files = saved.files,
                             !.broadcasts = Append(@,
                                 [room |-> item.roomId, userId |-> item.userId,
                                  text |-> text, timestamp |-> t])]
             ELSE st
      st2 == [st1 EXCEPT !.unlinks = @ \cup {wavPath}, !.isProcessing = FALSE]
  IN processQueue(st2, t)

\* The provider branch of processQueue for the item taken, with the
\* coordinator state st1 after the container was written.
callProvider(st1, item, wavPath, t) ==
  IF provider = "groq"
  THEN IF transcribeWithGroqCheck(st1.tmpFiles[wavPath])
       THEN [st1 EXCEPT !.calls = @ \cup
               {[item |-> item, wavPath |-> wavPath, recheck |-> TRUE,
                 variant |-> "groq"]}]
       ELSE finishJob(st1, item, wavPath,
                      [ok |-> TRUE, transcript |-> <<>>], t)
  ELSE [st1 EXCEPT !.calls = @ \cup
          {[item |-> item, wavPath |-> wavPath, recheck |-> FALSE,
            variant |-> "local-whisper"]}]

\* As startJob with this.queue[0] in place of this.queue.shift().
startJob_Peek(st, t) ==
  LET item == Head(st.queue)
      wavPath == WavPath(item.socketId, t)
      wav == writeWav(item.audioBuffer, item.sampleRate, item.channelCount)
  IN callProvider([st EXCEPT !.isProcessing = TRUE,
                             !.handed = Append(@, item.id),
                             !.tmpFiles = With(@, wavPath, wav)],
                  item, wavPath, t)

\* As startJob with this.queue.pop() in place of this.queue.shift().
startJob_Pop(st, t) ==
  LET item == st.queue[Len(st.queue)]
      wavPath == WavPath(item.socketId, t)
      wav == writeWav(item.audioBuffer, item.sampleRate, item.channelCount)
  IN callProvider([st EXCEPT !.isProcessing = TRUE,
                             !.queue = SubSeq(@, 1, Len(@) - 1),
                             !.handed = Append(@, item.id),
                             !.tmpFiles = With(@, wavPath, wav)],
                  item, wavPath, t)

\* The errors of fs.writeFileSync in writeWav: the directory is gone (no
\* file is made), or the device is full (the file is made and left empty).
WriteErrors == {"ENOENT", "ENOSPC"}

\* The container file after a write that failed for want of space.
EmptyFile == [header |-> <<>>, data |-> <<>>]

\* processQueue when writeWav throws: line 214 is outside the try block, so
\* neither catch nor finally runs and the promise of processQueue rejects.
writeWavThrows(st0, wavPath) ==
  IF st0.tmpDir = "ENOSPC"
  THEN [st0 EXCEPT !.tmpFiles = With(@, wavPath, EmptyFile)]
  ELSE st0

\* processQueue from the shift to the await of the provider.
startJob(st, t) ==
  LET item == Head(st.queue)
      wavPath == WavPath(item.socketId, t)
      wav == writeWav(item.audioBuffer, item.sampleRate, item.channelCount)
      st0 == [st EXCEPT !.isProcessing = TRUE, !.queue = Tail(@),
                        !.handed = Append(@, item.id)]
      st1 == [st0 EXCEPT !.tmpFiles = With(@, wavPath, wav)]
  IN IF st.tmpDir = "ok" THEN callProvider(st1, item, wavPath, t)
     ELSE writeWavThrows(st0, wavPath)

processQueue_NoBusyCheck(st, t) ==
  IF st.queue = <<>> THEN st ELSE startJob(st, t)

processQueue(st, t) ==
  IF st.isProcessing \/ st.queue = <<>> THEN st ELSE startJob(st, t)

\* The ids of the jobs of queue q that are not in q1, in queue order.
Removed(q, q1) ==
  LET gone(item) == \A i \in 1..Len(q1) : q1[i].id # item.id
      Ids(x) == [i \in 1..Len(x) |-> x[i].id]
  IN Ids(SelectSeq(q, gone))

\* Not in the code: the start time of the session the room has when a job
\* is enqueued (-1: none), kept with the job to tell whose audio it is.
SessionStartedAt(sess, roomId) ==
  IF roomId \in DOMAIN sess THEN sess[roomId].startedAt ELSE -1

\* As admit without the voice-activity check of queueTranscription.
admit_NoGate(st, peerData, pd1, audioBuffer, q1, id, t) ==
  LET item == [id |-> id,
               socketId |-> peerData.socketId,
               userId |-> peerData.userId,
               roomId |-> peerData.roomId,
               audioBuffer |-> audioBuffer,
               sampleRate |-> peerData.sampleRate,
               channelCount |-> peerData.channelCount,
               sessionStartedAt |->
                 SessionStartedAt(st.sessions, peerData.roomId)]
      st1 == [st EXCEPT !.queue = Append(q1, item),
                        !.evicted = @ \o Removed(st.queue, q1)]
  IN [st |-> processQueue(st1, t), pd |-> pd1,
      flushed |-> TRUE, admitted |-> TRUE]

\* queueTranscription from the voice-activity check on, with the queue that
\* remains after the overflow check.
admit(st, peerData, pd1, audioBuffer, q1, id, t) ==
  IF ~hasVoiceActivity(audioBuffer)
  THEN [st |-> st, pd |-> pd1, flushed |-> TRUE, admitted |-> FALSE]
  ELSE LET item == [id |-> id,
                    socketId |-> peerData.socketId,
                    userId |-> peerData.userId,
                    roomId |-> peerData.roomId,
                    audioBuffer |-> audioBuffer,
                    sampleRate |-> peerData.sampleRate,
                    channelCount |-> peerData.channelCount,
                    sessionStartedAt |->
                      SessionStartedAt(st.sessions, peerData.roomId)]
           st1 == [st EXCEPT !.queue = Append(q1, item),
                             !.evicted = @ \o Removed(st.queue, q1)]
       IN [st |-> processQueue(st1, t), pd |-> pd1,
           flushed |-> TRUE, admitted |-> TRUE]

\* The flush of queueTranscription: the buffer is taken and reset.
flush(peerData) ==
  [audioBuffer |-> Concat(peerData.buffer),
   pd |-> [peerData EXCEPT !.buffer = <<>>, !.bufferDuration = 0]]

NotFlushed(st, peerData) ==
  [st |-> st, pd |-> peerData, flushed |-> FALSE, admitted |-> FALSE]

\* As queueTranscription without the overflow check.
queueTranscription_NoEviction(st, peerData, id, t) ==
  IF peerData.buffer = <<>>
  THEN NotFlushed(st, peerData)
  ELSE admit(st, peerData, flush(peerData).pd, flush(peerData).audioBuffer,
             st.queue, id, t)

\* As queueTranscription with pop() in place of shift().
queueTranscription_EvictNewest(st, peerData, id, t) ==
  IF peerData.buffer = <<>>
  THEN NotFlushed(st, peerData)
  ELSE admit(st, peerData, flush(peerData).pd, flush(peerData).audioBuffer,
             IF Len(st.queue) >= QueueCapacity
             THEN SubSeq(st.queue, 1, Len(st.queue) - 1) ELSE st.queue,
             id, t)

queueTranscription(st, peerData, id, t) ==
  IF peerData.buffer = <<>>
  THEN NotFlushed(st, peerData)
  ELSE admit(st, peerData, flush(peerData).pd, flush(peerData).audioBuffer,
             IF Len(st.queue) >= QueueCapacity
             THEN Tail(st.queue) ELSE st.queue,
             id, t)

\* The frame's chunk appended and its duration added.
accumulate(peerData, data) ==
  [peerData EXCEPT
     !.buffer = Append(@, [n |-> data.n, a |-> data.a]),
     !.bufferDuration = @ + data.n * (UnitsPerSecond \div data.sampleRate),
     !.sampleRate = data.sampleRate,
     !.channelCount = data.channelCount]

\* As ondata with > in place of >=.
ondata_StrictThreshold(st, peerData, data, id, t) ==
  IF accumulate(peerData, data).bufferDuration > bufferDuration * UnitsPerSecond
  THEN queueTranscription(st, accumulate(peerData, data), id, t)
  ELSE NotFlushed(st, accumulate(peerData, data))

\* sink.ondata of setupAudioSink, for one frame.
ondata(st, peerData, data, id, t) ==
  IF accumulate(peerData, data).bufferDuration >= bufferDuration * UnitsPerSecond
  THEN queueTranscription(st, accumulate(peerData, data), id, t)
  ELSE NotFlushed(st, accumulate(peerData, data))

\* ----------------------------------------------------------------- peers
NewPeerData(socketId, roomId, userId) ==
  [socketId |-> socketId, audioSink |-> "null", buffer |-> <<>>,
   bufferDuration |-> 0,
   userId |-> IF userId # "" THEN userId ELSE socketId,
   roomId |-> roomId, sampleRate |-> DefaultSampleRate,
   channelCount |-> DefaultChannelCount]

\* The body of removePeer for a socket id found in this.peers.
removeKnownPeer(prs, sess, fls, socketId, t) ==
  LET roomId == prs[socketId].roomId
      prs1 == Without(prs, socketId)
      ended == IF ~roomHasPeers(prs1, roomId)
               THEN endSession(sess, fls, roomId, t)
               ELSE [sessions |-> sess, files |-> fls]
  IN [peers |-> prs1, sessions |-> ended.sessions, files |-> ended.files,
      err |-> FALSE]

\* As removePeer without its `if (peerData)`: reading roomId of undefined
\* throws.
removePeer_Unguarded(prs, sess, fls, socketId, t) ==
  IF socketId \in DOMAIN prs
  THEN removeKnownPeer(prs, sess, fls, socketId, t)
  ELSE [peers |-> prs, sessions |-> sess, files |-> fls, err |-> TRUE]

\* removePeer on (peers, sessions, files); err is TRUE when it throws.
removePeer(prs, sess, fls, socketId, t) ==
  IF socketId \in DOMAIN prs
  THEN removeKnownPeer(prs, sess, fls, socketId, t)
  ELSE [peers |-> prs, sessions |-> sess, files |-> fls, err |-> FALSE]

\* cleanup: removePeer for every key of this.peers; a Map's iteration goes
\* on over the remaining keys when the current one is deleted.
RECURSIVE cleanup(_, _, _, _)
cleanup(prs, sess, fls, t) ==
  IF DOMAIN prs = {}
  THEN [peers |-> prs, sessions |-> sess, files |-> fls]
  ELSE LET socketId == CHOOSE k \in DOMAIN prs : TRUE
           r == removePeer(prs, sess, fls, socketId, t)
       IN cleanup(r.peers, r.sessions, r.files, t)

\* -------------------------------------------------------------- provider
TxtHello == <<"h","e","l","l","o"," ","t","h","e","r","e">>
TxtBye == <<" ","B","y","e",".","\n">>
TxtBlank == <<" ","\n">>
TxtOk == <<" ","O","k"," ","\n">>

\* The texts a provider may return.
ProviderTexts == {TxtHello, TxtBye, TxtBlank, TxtOk}

\* What a provider call may end with: the remote call resolves with a text
\* or rejects; the subprocess closes with an exit code, having written its
\* text file or not, or fails to spawn.
Outcomes ==
  IF provider = "groq"
  THEN {[kind |-> "resolve", code |-> 0, hasTxt |-> TRUE, txt |-> x] :
          x \in ProviderTexts}
       \cup {[kind |-> "reject", code |-> 0, hasTxt |-> FALSE, txt |-> <<>>]}
  ELSE {[kind |-> "close", code |-> 0, hasTxt |-> TRUE, txt |-> x] :
          x \in ProviderTexts}
       \cup {[kind |-> "close", code |-> 0, hasTxt |-> FALSE, txt |-> <<>>],
             [kind |-> "close", code |-> 1, hasTxt |-> FALSE, txt |-> <<>>],
             [kind |-> "error", code |-> 0, hasTxt |-> FALSE, txt |-> <<>>]}

\* The result processQueue receives from its await.
ProviderResult(out) ==
  IF provider = "groq"
  THEN IF out.kind = "resolve"
       THEN [ok |-> TRUE, transcript |-> transcribeWithGroqResult(out.txt)]
       ELSE [ok |-> FALSE, transcript |-> <<>>]
  ELSE transcribeWithLocalWhisperResult(out)

\* As Constructor without the fallback of a groq configuration with no key.
Constructor_NoFallback(configProvider, apiKey) ==
  [provider |-> configProvider,
   groq |-> configProvider = "groq" /\ apiKey # ""]

\* The constructor's choice of provider.
Constructor(configProvider, apiKey) ==
  [provider |-> IF configProvider = "groq" /\ apiKey = ""
                THEN "local-whisper" ELSE configProvider,
   groq |-> configProvider = "groq" /\ apiKey # ""]

\* --------------------------------------------------------------- actions
\* lastOp: op and socketId name the handler and its socket; roomId its room;
\* present: the socket id was in this.peers (createPeer: the room had a
\* session); started: createPeer called startSession; flushed, admitted, id,
\* data: what sink.ondata did with which frame; err: the handler threw;
\* ok, txt: the provider outcome handed to processQueue; configProvider,
\* apiKey: the configuration the constructor read.
Op(name, socketId) ==
  [op |-> name, socketId |-> socketId, roomId |-> None, present |-> FALSE,
   started |-> FALSE, flushed |-> FALSE, admitted |-> FALSE, err |-> FALSE,
   id |-> 0, data |-> NoFrame, ok |-> FALSE, txt |-> <<>>,
   configProvider |-> None, apiKey |-> ""]

Init ==
  /\ \E cp \in {"groq", "local-whisper"}, key \in {"", "gsk"} :
       /\ provider = Constructor(cp, key).provider
       /\ groq = Constructor(cp, key).groq
       /\ lastOp = [Op("constructor", None) EXCEPT
                      !.configProvider = cp, !.apiKey = key]
  /\ now = 0
  /\ peers = <<>>
  /\ orphans = {}
  /\ queue = <<>>
  /\ isProcessing = FALSE
  /\ calls = {}
  /\ tmpDir = "ok"
  /\ tmpFiles = <<>>
  /\ unlinks = {}
  /\ sessions = <<>>
  /\ files = <<>>
  /\ emitted = <<>>
  /\ nextId = 1
  /\ handed = <<>>
  /\ evicted = <<>>

SetState(st) ==
  /\ queue' = st.queue
  /\ isProcessing' = st.isProcessing
  /\ calls' = st.calls
  /\ tmpFiles' = st.tmpFiles
  /\ unlinks' = st.unlinks
  /\ sessions' = st.sessions
  /\ files' = st.files
  /\ emitted' = st.broadcasts
  /\ handed' = st.handed
  /\ evicted' = st.evicted
  /\ tmpDir' = st.tmpDir

Tick ==
  /\ now < MaxClock
  /\ now' = now + 1
  /\ lastOp' = Op("tick", None)
  /\ emitted' = <<>>
  /\ UNCHANGED <<handed, evicted, tmpDir>>
  /\ UNCHANGED <<provider, groq, peers, orphans, queue, isProcessing, calls,
                 tmpFiles, unlinks, sessions, files, nextId>>

CreatePeer(socketId, roomId, userId) ==
  LET started == IF ~roomHasPeers(peers, roomId)
                 THEN startSession(sessions, files, roomId, now)
                 ELSE [sessions |-> sessions, files |-> files]
  IN /\ socketId \in DOMAIN peers => Cardinality(orphans) < MaxOrphans
     /\ sessions' = started.sessions
     /\ files' = started.files
     /\ peers' = With(peers, socketId, NewPeerData(socketId, roomId, userId))
     /\ orphans' = IF socketId \in DOMAIN peers
                   THEN orphans \cup {peers[socketId]} ELSE orphans
     /\ lastOp' = [Op("createPeer", socketId) EXCEPT
                     !.roomId = roomId,
                     !.started = ~roomHasPeers(peers, roomId),
                     !.present = roomId \in DOMAIN sessions]
     /\ emitted' = <<>>
     /\ UNCHANGED <<handed, evicted, tmpDir>>
     /\ UNCHANGED <<provider, groq, now, queue, isProcessing, calls, tmpFiles,
                    unlinks, nextId>>

\* pc.ontrack with an audio track: setupAudioSink.
OnTrack(socketId) ==
  /\ socketId \in DOMAIN peers
  /\ peers[socketId].audioSink = "null"
  /\ peers' = [peers EXCEPT ![socketId].audioSink = "active"]
  /\ lastOp' = Op("ontrack", socketId)
  /\ emitted' = <<>>
  /\ UNCHANGED <<handed, evicted, tmpDir>>
  /\ UNCHANGED <<provider, groq, now, orphans, queue, isProcessing, calls,
                 tmpFiles, unlinks, sessions, files, nextId>>

OrphanOnTrack(o) ==
  /\ o \in orphans
  /\ o.audioSink = "null"
  /\ orphans' = (orphans \ {o}) \cup {[o EXCEPT !.audioSink = "active"]}
  /\ lastOp' = Op("ontrack", o.socketId)
  /\ emitted' = <<>>
  /\ UNCHANGED <<handed, evicted, tmpDir>>
  /\ UNCHANGED <<provider, groq, now, peers, queue, isProcessing, calls,
                 tmpFiles, unlinks, sessions, files, nextId>>

OnData(socketId, data) ==
  /\ socketId \in DOMAIN peers
  /\ peers[socketId].audioSink = "active"
  /\ nextId <= MaxJobs
  /\ LET r == ondata(State, peers[socketId], data, nextId, now)
     IN /\ SetState(r.st)
        /\ peers' = [peers EXCEPT ![socketId] = r.pd]
        /\ nextId' = IF r.admitted THEN nextId + 1 ELSE nextId
        /\ lastOp' = [Op("ondata", socketId) EXCEPT
                        !.roomId = r.pd.roomId,
                        !.present = TRUE,
                        !.flushed = r.flushed,
                        !.admitted = r.admitted,
                        !.data = data,
                        !.id = IF r.admitted THEN nextId ELSE 0]
  /\ UNCHANGED <<provider, groq, now, orphans>>

OrphanOnData(o, data) ==
  /\ o \in orphans
  /\ o.audioSink = "active"
  /\ nextId <= MaxJobs
  /\ LET r == ondata(State, o, data, nextId, now)
     IN /\ SetState(r.st)
        /\ orphans' = (orphans \ {o}) \cup {r.pd}
        /\ nextId' = IF r.admitted THEN nextId + 1 ELSE nextId
        /\ lastOp' = [Op("ondata", o.socketId) EXCEPT
                        !.roomId = r.pd.roomId,
                        !.flushed = r.flushed,
                        !.admitted = r.admitted,
                        !.data = data,
                        !.id = IF r.admitted THEN nextId ELSE 0]
  /\ UNCHANGED <<provider, groq, now, peers>>

RemovePeer(socketId) ==
  LET r == removePeer(peers, sessions, files, socketId, now)
  IN /\ peers' = r.peers
     /\ sessions' = r.sessions
     /\ files' = r.files
     /\ lastOp' = [Op("removePeer", socketId) EXCEPT
                     !.present = socketId \in DOMAIN peers,
                     !.roomId = IF socketId \in DOMAIN peers
                                THEN peers[socketId].roomId ELSE None,
                     !.err = r.err]
     /\ emitted' = <<>>
     /\ UNCHANGED <<handed, evicted, tmpDir>>
     /\ UNCHANGED <<provider, groq, now, orphans, queue, isProcessing, calls,
                    tmpFiles, unlinks, nextId>>

\* pc.onconnectionstatechange of a replaced connection reaching
\* 'disconnected' or 'failed': it removes whatever peer its socket id names.
OrphanConnectionFailed(o) ==
  LET r == removePeer(peers, sessions, files, o.socketId, now)
  IN /\ o \in orphans
     /\ orphans' = orphans \ {o}
     /\ peers' = r.peers
     /\ sessions' = r.sessions
     /\ files' = r.files
     /\ lastOp' = [Op("connectionFailed", o.socketId) EXCEPT
                     !.present = o.socketId \in DOMAIN peers,
                     !.err = r.err]
     /\ emitted' = <<>>
     /\ UNCHANGED <<handed, evicted, tmpDir>>
     /\ UNCHANGED <<provider, groq, now, queue, isProcessing, calls,
                    tmpFiles, unlinks, nextId>>

Cleanup ==
  LET r == cleanup(peers, sessions, files, now)
  IN /\ peers' = r.peers
     /\ sessions' = r.sessions
     /\ files' = r.files
     /\ lastOp' = Op("cleanup", None)
     /\ emitted' = <<>>
     /\ UNCHANGED <<provider, groq, now, orphans, queue, isProcessing, calls,
                    tmpDir, tmpFiles, unlinks, nextId, handed, evicted>>

\* The awaited provider call of processQueue settles.
ProviderDone(c, out) ==
  /\ c \in calls
  /\ out \in Outcomes
  /\ SetState(finishJob([State EXCEPT !.calls = @ \ {c}], c.item, c.wavPath,
                        ProviderResult(out), now))
  /\ lastOp' = [Op("providerDone", c.item.socketId) EXCEPT
                  !.roomId = c.item.roomId, !.id = c.item.id,
                  !.ok = out.kind \in {"resolve", "close"} /\ out.code = 0,
                  !.txt = out.txt]
  /\ UNCHANGED <<provider, groq, now, peers, orphans, nextId>>

\* The temporary directory starts to fail writes.
TmpDirFault(e) ==
  /\ tmpDir = "ok"
  /\ e \in WriteErrors
  /\ tmpDir' = e
  /\ lastOp' = Op("tmpDirFault", None)
  /\ emitted' = <<>>
  /\ UNCHANGED <<provider, groq, now, peers, orphans, queue, isProcessing,
                 calls, tmpFiles, unlinks, sessions, files, nextId, handed,
                 evicted>>

\* A pending fs.unlink is carried out; a missing file is ignored.
FsUnlink(path) ==
  /\ path \in unlinks
  /\ unlinks' = unlinks \ {path}
  /\ tmpFiles' = Without(tmpFiles, path)
  /\ lastOp' = Op("unlink", None)
  /\ emitted' = <<>>
  /\ UNCHANGED <<handed, evicted, tmpDir>>
  /\ UNCHANGED <<provider, groq, now, peers, orphans, queue, isProcessing,
                 calls, sessions, files, nextId>>

Next ==
  \/ Tick
  \/ \E s \in Sockets, r \in Rooms : CreatePeer(s, r, UserOf(s))
  \/ \E s \in Sockets : OnTrack(s)
  \/ \E o \in orphans : OrphanOnTrack(o)
  \/ \E s \in Sockets, f \in Frames : OnData(s, f)
  \/ \E o \in orphans, f \in Frames : OrphanOnData(o, f)
  \/ \E s \in Sockets : RemovePeer(s)
  \/ \E o \in orphans : OrphanConnectionFailed(o)
  \/ \E c \in calls, out \in Outcomes : ProviderDone(c, out)
  \/ \E p \in unlinks : FsUnlink(p)
  \/ \E e \in WriteErrors : TmpDirFault(e)
  \/ Cleanup

Spec == Init /\ [][Next]_vars


\* ------------------------------------------------- checked specifications
\* Spec is the whole system.  Each specification below is the same system
\* with the same actions, under an environment that offers only the inputs
\* its properties are about.

\* The room a socket joins when each socket keeps to one room.
HomeRoom(socketId) == IF socketId = "s1" THEN "r1" ELSE "r2"

\* A socket id that is not in this.peers joins.
CreateFreshPeer(socketId, roomId) ==
  /\ socketId \notin DOMAIN peers
  /\ CreatePeer(socketId, roomId, UserOf(socketId))

\* Rooms and sessions: joins (also of a socket id already present), removals
\* and the clock; no audio arrives.
NextRooms ==
  \/ Tick
  \/ \E s \in Sockets, r \in Rooms : CreatePeer(s, r, UserOf(s))
  \/ \E s \in Sockets : RemovePeer(s)
  \/ \E o \in orphans : OrphanConnectionFailed(o)

SpecRooms == Init /\ [][NextRooms]_vars

\* Sessions with transcripts: socket s1 joins and re-joins either room, is
\* removed, and sends loud 6 s frames whose provider calls return a text.
NextSessions ==
  \/ \E r \in Rooms : CreatePeer("s1", r, UserOf("s1"))
  \/ RemovePeer("s1")
  \/ \E o \in orphans : OrphanConnectionFailed(o)
  \/ OnTrack("s1")
  \/ nextId <= MaxFlushJobs /\ OnData("s1", FrameLong)
  \/ \E c \in calls : ProviderDone(c, CHOOSE o \in Outcomes : o.txt = TxtHello)

SpecSessions == Init /\ [][NextSessions]_vars

\* The queue and its worker: two peers in two rooms, frames that flush at
\* once (loud or silent), provider calls that end without text or fail.
QueueFrames == {FrameLong, [FrameLong EXCEPT !.a = 0]}
QueueOutcomes == {o \in Outcomes : o.txt = <<>>}

NextQueue ==
  \/ \E s \in Sockets : CreateFreshPeer(s, HomeRoom(s))
  \/ \E s \in Sockets : RemovePeer(s)
  \/ \E s \in Sockets : OnTrack(s)
  \/ \E s \in Sockets, f \in QueueFrames : OnData(s, f)
  \/ \E c \in calls, out \in QueueOutcomes : ProviderDone(c, out)
  \/ \E p \in unlinks : FsUnlink(p)

SpecQueue == Init /\ [][NextQueue]_vars

\* Buffering: frames of every size and rate, while at most MaxFlushJobs
\* segments have been admitted; provider calls stay in flight.
NextFlush ==
  \/ \E s \in Sockets : CreateFreshPeer(s, "r1")
  \/ \E s \in Sockets : RemovePeer(s)
  \/ \E s \in Sockets : OnTrack(s)
  \/ \E s \in Sockets, f \in Frames : nextId <= MaxFlushJobs /\ OnData(s, f)

SpecFlush == Init /\ [][NextFlush]_vars

\* Providers: one peer, every provider outcome and text.
NextProvider ==
  \/ CreateFreshPeer("s1", "r1")
  \/ RemovePeer("s1")
  \/ OnTrack("s1")
  \/ OnData("s1", FrameLong)
  \/ \E c \in calls, out \in Outcomes : ProviderDone(c, out)
  \/ \E p \in unlinks : FsUnlink(p)

SpecProvider == Init /\ [][NextProvider]_vars

\* Replaced connections: socket s1 joins, also while it is present, so that
\* the connection it had before stays open with its audio sink; both the
\* current and the replaced connection deliver loud 6 s frames.
NextOrphans ==
  \/ \E r \in Rooms : CreatePeer("s1", r, UserOf("s1"))
  \/ RemovePeer("s1")
  \/ \E o \in orphans : OrphanConnectionFailed(o)
  \/ OnTrack("s1")
  \/ \E o \in orphans : OrphanOnTrack(o)
  \/ nextId <= MaxFlushJobs /\ OnData("s1", FrameLong)
  \/ \E o \in orphans : nextId <= MaxFlushJobs /\ OrphanOnData(o, FrameLong)
  \/ \E c \in calls, out \in QueueOutcomes : ProviderDone(c, out)

SpecOrphans == Init /\ [][NextOrphans]_vars

\* A failing temporary directory: one peer, every provider outcome, and
\* writes to this.tmpDir that start to fail at any moment.
NextDisk ==
  \/ CreateFreshPeer("s1", "r1")
  \/ RemovePeer("s1")
  \/ OnTrack("s1")
  \/ OnData("s1", FrameLong)
  \/ \E c \in calls, out \in Outcomes : ProviderDone(c, out)
  \/ \E p \in unlinks : FsUnlink(p)
  \/ \E e \in WriteErrors : TmpDirFault(e)

SpecDisk == Init /\ [][NextDisk]_vars

\* The gate: one peer sends frames of 2.5 s, two to a segment, with sample
\* values at, around and far from the threshold, of either sign.
GateAmplitudes == {0, 50, -51, 100, -20000}
GateFrames ==
  {[n |-> 40000, a |-> v, sampleRate |-> 16000, channelCount |-> 1] :
     v \in GateAmplitudes}

NextGate ==
  \/ CreateFreshPeer("s1", "r1")
  \/ RemovePeer("s1")
  \/ OnTrack("s1")
  \/ \E f \in GateFrames : nextId <= MaxFlushJobs /\ OnData("s1", f)

SpecGate == Init /\ [][NextGate]_vars

\* The container: frames of 5 s or one sample more at three sample rates,
\* mono and stereo, each flushed at once; provider calls end without text.
ContainerRates == {8000, 16000, 48000}
ContainerFrames ==
  {[n |-> 5 * r + extra, a |-> 100, sampleRate |-> r, channelCount |-> c] :
     r \in ContainerRates, c \in {1, 2}, extra \in {0, 1}}

NextContainer ==
  \/ CreateFreshPeer("s1", "r1")
  \/ RemovePeer("s1")
  \/ OnTrack("s1")
  \/ \E f \in ContainerFrames : nextId <= MaxFlushJobs /\ OnData("s1", f)
  \/ \E c \in calls, out \in QueueOutcomes : ProviderDone(c, out)
  \/ \E path \in unlinks : FsUnlink(path)

SpecContainer == Init /\ [][NextContainer]_vars

\* Leaving and re-joining: socket s1 joins room r1, is removed and joins
\* again while the clock advances and provider calls return a text.
NextRejoin ==
  \/ Tick
  \/ CreateFreshPeer("s1", "r1")
  \/ RemovePeer("s1")
  \/ OnTrack("s1")
  \/ nextId <= MaxFlushJobs /\ OnData("s1", FrameLong)
  \/ \E c \in calls : ProviderDone(c, CHOOSE o \in Outcomes : o.txt = TxtHello)
  \/ \E path \in unlinks : FsUnlink(path)

SpecRejoin == Init /\ [][NextRejoin]_vars

\* Shutdown: the rooms and sessions of SpecRooms, and cleanup.
NextCleanup ==
  \/ Tick
  \/ \E s \in Sockets, r \in Rooms : CreatePeer(s, r, UserOf(s))
  \/ \E s \in Sockets : RemovePeer(s)
  \/ \E o \in orphans : OrphanConnectionFailed(o)
  \/ Cleanup

SpecCleanup == Init /\ [][NextCleanup]_vars

\* Fairness.  A provider call in flight eventually settles, with some
\* outcome, and the continuation of processQueue then runs: this is
\* WF_vars(ProviderSettles) with ENABLED <<ProviderSettles>>_vars written as
\* the predicate it equals, calls # {}.  A requested fs.unlink is eventually
\* carried out.
ProviderSettles == \E c \in calls, out \in Outcomes : ProviderDone(c, out)
UnlinkRuns == \E path \in unlinks : FsUnlink(path)

ProviderFair == []<>(calls = {}) \/ []<><<ProviderSettles>>_vars

SpecDiskLive == SpecDisk /\ ProviderFair /\ WF_vars(UnlinkRuns)

\* The same fairness for one peer, loud or silent frames, provider calls
\* that end without text, and no write error.
NextDrain ==
  \/ CreateFreshPeer("s1", "r1")
  \/ OnTrack("s1")
  \/ \E f \in QueueFrames : OnData("s1", f)
  \/ \E c \in calls, out \in QueueOutcomes : ProviderDone(c, out)
  \/ UnlinkRuns

SpecDrainLive ==
  Init /\ [][NextDrain]_vars /\ ProviderFair /\ WF_vars(UnlinkRuns)

\* ------------------------------------------------------------ properties

\* C1: in every reachable state at most one provider call is in flight, and
\* a call is in flight only while isProcessing is true.
C1_AtMostOneCallInFlight ==
  /\ Cardinality(calls) <= 1
  /\ calls # {} => isProcessing

\* C1 witness: a call is in flight while the queue is full of jobs that
\* arrived after it started.
C1_Witness ==
  /\ Cardinality(calls) = 1
  /\ Len(queue) = QueueCapacity
  /\ \A c \in calls : \A i \in 1..Len(queue) : queue[i].id > c.item.id

\* C2: an enqueue into a queue that holds 3 jobs removes exactly the head,
\* keeps the two others in order and puts the new job last; an enqueue into
\* a queue of fewer than 3 removes none of the queued jobs.
C2_OverflowDropsOldest ==
  [][ (lastOp'.op = "ondata" /\ lastOp'.admitted) =>
        IF Len(queue) >= QueueCapacity
        THEN /\ Len(queue') = QueueCapacity
             /\ SubSeq(queue', 1, QueueCapacity - 1) = Tail(queue)
             /\ queue'[QueueCapacity].id = lastOp'.id
        ELSE \/ /\ Len(queue') = Len(queue) + 1
                /\ SubSeq(queue', 1, Len(queue)) = queue
                /\ queue'[Len(queue')].id = lastOp'.id
             \/ /\ queue = <<>>
                /\ queue' = <<>>
                /\ \E c \in calls' : c.item.id = lastOp'.id ]_vars

\* C2 witness: a job was just admitted as last of a full queue whose former
\* head is gone: the job enqueued right after the one in flight is missing.
C2_Witness ==
  /\ lastOp.op = "ondata"
  /\ lastOp.admitted
  /\ Len(queue) = QueueCapacity
  /\ queue[QueueCapacity].id = lastOp.id
  /\ \E c \in calls : queue[1].id > c.item.id + 1

\* C3: the queue never holds more than 3 jobs.
C3_QueueBounded == Len(queue) <= QueueCapacity

\* C3 witness: the queue is full after more jobs were admitted than the
\* queue and the worker can hold.
C3_Witness ==
  /\ Len(queue) = QueueCapacity
  /\ calls # {}
  /\ nextId > QueueCapacity + 2

\* The duration a frame adds, in 1/UnitsPerSecond seconds.
FrameDuration(data) == data.n * (UnitsPerSecond \div data.sampleRate)

Threshold == bufferDuration * UnitsPerSecond

\* C4: a frame flushes exactly when it brings the accumulated duration to the
\* threshold or above; after a flush the buffer is empty and the duration 0,
\* whether or not the segment is admitted; otherwise the frame is kept and its
\* duration added; between frames the duration is below the threshold.
C4_FlushAtThreshold ==
  [][ (lastOp'.op = "ondata" /\ lastOp'.present) =>
        LET s == lastOp'.socketId
            d == peers[s].bufferDuration + FrameDuration(lastOp'.data)
        IN /\ peers[s].bufferDuration < Threshold
           /\ lastOp'.flushed <=> d >= Threshold
           /\ lastOp'.flushed =>
                /\ peers'[s].buffer = <<>>
                /\ peers'[s].bufferDuration = 0
           /\ ~lastOp'.flushed =>
                /\ peers'[s].bufferDuration = d
                /\ Len(peers'[s].buffer) = Len(peers[s].buffer) + 1 ]_vars

\* C4 witness: a silent 2 s frame after a loud 3 s one reached 5 s exactly,
\* and the flush left the buffer empty.
C4_Witness ==
  /\ lastOp.op = "ondata"
  /\ lastOp.present
  /\ lastOp.flushed
  /\ lastOp.data = FrameSilent
  /\ lastOp.admitted
  /\ peers[lastOp.socketId].buffer = <<>>

\* C5: a room has an open session exactly when some entry of this.peers
\* records the room.
C5_SessionIffOccupied ==
  \A r \in Rooms : r \in DOMAIN sessions <=> roomHasPeers(peers, r)

\* C6: removing the last peer of a room closes the session, with an end time
\* in its file; a session opened for a room is written to a path that holds
\* no file yet, so no closed session's file is overwritten.
C6_RejoinOpensDistinctFile ==
  [][ /\ (lastOp'.op = "removePeer" /\ lastOp'.present
          /\ ~roomHasPeers(peers', lastOp'.roomId)
          /\ lastOp'.roomId \in DOMAIN sessions) =>
            /\ lastOp'.roomId \notin DOMAIN sessions'
            /\ files'[sessions[lastOp'.roomId].filePath].endedAt # NoTime
      /\ (lastOp'.op = "createPeer"
          /\ lastOp'.roomId \in DOMAIN sessions' \ DOMAIN sessions) =>
            sessions'[lastOp'.roomId].filePath \notin DOMAIN files ]_vars

\* C7: startSession for a room whose session is open returns that session
\* and leaves the sessions map and the session files as they are.
C7_StartSessionIdempotent ==
  [][ (lastOp'.op = "createPeer" /\ lastOp'.started /\ lastOp'.present) =>
        /\ startSession(sessions, files, lastOp'.roomId, now).ret
             = sessions[lastOp'.roomId]
        /\ sessions' = sessions
        /\ files' = files ]_vars

\* C7 witness: createPeer called startSession for a room whose open session
\* already held a transcript.
C7_Witness ==
  /\ lastOp.op = "createPeer"
  /\ lastOp.started
  /\ lastOp.present
  /\ lastOp.roomId \in DOMAIN sessions
  /\ sessions[lastOp.roomId].transcriptions # <<>>

\* C8: removePeer for a socket id that is not in this.peers throws nothing and
\* changes nothing; a removePeer right after a removePeer of the same socket
\* id finds it absent.
C8_RemoveAbsentPeerIsNoOp ==
  [][ /\ (lastOp'.op = "removePeer" /\ ~lastOp'.present) =>
            /\ ~lastOp'.err
            /\ UNCHANGED <<peers, orphans, sessions, files, queue,
                           isProcessing, calls, tmpFiles, unlinks>>
      /\ (lastOp.op = "removePeer" /\ lastOp'.op = "removePeer"
          /\ lastOp'.socketId = lastOp.socketId) => ~lastOp'.present ]_vars

\* C8 witness: removePeer ran for an absent socket id while another peer and
\* a session were there to disturb.
C8_Witness ==
  /\ lastOp.op = "removePeer"
  /\ ~lastOp.present
  /\ DOMAIN peers # {}
  /\ DOMAIN sessions # {}

\* The deny-list match of the claim: trimmed and lower-cased, the text is a
\* listed phrase, with or without one trailing period.
DenyListed(text) ==
  LET t == ToLowerCase(Trim(text))
  IN \/ t \in hallucinations
     \/ /\ t # <<>>
        /\ t[Len(t)] = "."
        /\ SubSeq(t, 1, Len(t) - 1) \in hallucinations

\* C9: under either provider a deny-listed result is neither saved nor
\* broadcast, and "hello there" is broadcast.
C9_DenyListedDiscarded ==
  [][ (lastOp'.op = "providerDone" /\ lastOp'.ok) =>
        /\ DenyListed(lastOp'.txt) =>
             /\ emitted' = <<>>
             /\ sessions' = sessions
             /\ files' = files
        /\ lastOp'.txt = TxtHello => Len(emitted') = 1 ]_vars

\* C10: every provider call in flight was preceded by a re-check of the
\* voice-activity gate on the job's payload, which accepted it.
C10_RecheckBeforeProvider ==
  \A c \in calls : c.recheck /\ hasVoiceActivity(c.item.audioBuffer)

\* C11: when the provider call of a job fails, nothing is saved or broadcast,
\* the job is neither queued again nor called again, the worker is released,
\* and it takes the head of the queue, if any, leaving the jobs behind it as
\* they are.
C11_FailureDropsJob ==
  [][ (lastOp'.op = "providerDone" /\ ~lastOp'.ok) =>
        /\ sessions' = sessions
        /\ files' = files
        /\ emitted' = <<>>
        /\ \A c \in calls' : c.item.id # lastOp'.id
        /\ \A i \in 1..Len(queue') : queue'[i].id # lastOp'.id
        /\ IF queue = <<>>
           THEN /\ queue' = <<>>
                /\ ~isProcessing'
                /\ calls' = {}
           ELSE /\ queue' = Tail(queue)
                /\ isProcessing'
                /\ \E c \in calls' : c.item = Head(queue) ]_vars

\* C11 witness: a provider call failed, the next job is in flight and another
\* one still waits.
C11_Witness ==
  /\ lastOp.op = "providerDone"
  /\ ~lastOp.ok
  /\ \E c \in calls : c.item.id > lastOp.id
  /\ queue # <<>>

Count(seq, id) == Cardinality({i \in 1..Len(seq) : seq[i] = id})

\* The ids of the queued jobs, in queue order.
QueueIds == [i \in 1..Len(queue) |-> queue[i].id]

\* C13: every job admitted so far is in exactly one place, once: waiting in
\* the queue, shifted by the worker, or shifted by the overflow check; the
\* job of a provider call in flight was shifted by the worker.
C13_ExactlyOneFate ==
  /\ \A id \in 1..(nextId - 1) :
       Count(QueueIds, id) + Count(handed, id) + Count(evicted, id) = 1
  /\ \A c \in calls : Count(handed, c.item.id) = 1

\* C13 witness: jobs were processed and evicted, and a job still waits whose
\* peer has been removed.
C13_Witness ==
  /\ handed # <<>>
  /\ evicted # <<>>
  /\ lastOp.op = "removePeer"
  /\ lastOp.present
  /\ \E i \in 1..Len(queue) : queue[i].socketId = lastOp.socketId

\* A sequence of ids in enqueue order.
Increasing(seq) == \A i, j \in 1..Len(seq) : i < j => seq[i] < seq[j]

\* C14: the worker takes jobs in enqueue order, the queue holds them in
\* enqueue order, and every job taken or evicted was enqueued before every
\* job that still waits.
C14_EnqueueOrder ==
  /\ Increasing(handed)
  /\ Increasing(QueueIds)
  /\ \A j \in 1..Len(queue) :
       /\ \A i \in 1..Len(handed) : handed[i] < queue[j].id
       /\ \A i \in 1..Len(evicted) : evicted[i] < queue[j].id

\* C14 witness: the worker took a job enqueued after an evicted one, while
\* jobs of both peers wait.
C14_Witness ==
  /\ Len(handed) >= 2
  /\ \E i \in 1..Len(evicted) : evicted[i] < handed[Len(handed)]
  /\ \E i, j \in 1..Len(queue) : queue[i].socketId # queue[j].socketId

\* The segment a flush of the peer's buffer takes once the frame is appended.
Segment(peerData, data) == Concat(accumulate(peerData, data).buffer)

\* C15: a flush whose segment the voice-activity gate rejects leaves the
\* queue, the worker, the temporary files, the sessions and their files as
\* they are and broadcasts nothing, while the peer's buffer and duration are
\* reset; an all-zero segment is rejected.
C15_RejectedFlushHasNoEffect ==
  [][ (lastOp'.op = "ondata" /\ lastOp'.present /\ lastOp'.flushed) =>
        LET s == lastOp'.socketId
            segment == Segment(peers[s], lastOp'.data)
        IN /\ (\A i \in 1..Len(segment) : segment[i].a = 0)
                => ~hasVoiceActivity(segment)
           /\ ~hasVoiceActivity(segment) =>
                /\ UNCHANGED <<queue, isProcessing, calls, tmpFiles, unlinks,
                               sessions, files, handed, evicted, nextId>>
                /\ emitted' = <<>>
                /\ peers'[s].buffer = <<>>
                /\ peers'[s].bufferDuration = 0 ]_vars

\* C15 witness: an all-zero segment was flushed and rejected while a call was
\* in flight and jobs waited.
C15_Witness ==
  /\ lastOp.op = "ondata"
  /\ lastOp.present
  /\ lastOp.flushed
  /\ ~lastOp.admitted
  /\ lastOp.data.a = 0
  /\ calls # {}
  /\ queue # <<>>

\* C16: when a provider call ends with a text that is not blank and not
\* deny-listed while the job's room has an open session, that session gains
\* exactly one entry, at its end, with the job's user id and the trimmed
\* text, the other sessions stay as they are, and exactly one message, with
\* the same user id, text and time, is emitted, to the job's room; a blank
\* result saves and emits nothing.
C16_OneEntryOneBroadcast ==
  [][ (lastOp'.op = "providerDone" /\ lastOp'.ok) =>
        LET item == (CHOOSE c \in calls : c.item.id = lastOp'.id).item
            r == item.roomId
            text == Trim(lastOp'.txt)
        IN /\ (text # <<>> /\ ~DenyListed(lastOp'.txt)
               /\ r \in DOMAIN sessions) =>
                /\ Len(emitted') = 1
                /\ emitted'[1].room = r
                /\ emitted'[1].userId = item.userId
                /\ emitted'[1].text = text
                /\ DOMAIN sessions' = DOMAIN sessions
                /\ sessions'[r].transcriptions =
                     Append(sessions[r].transcriptions,
                            [timestamp |-> ToISOString(emitted'[1].timestamp),
                             userId |-> item.userId, text |-> text])
                /\ \A q \in DOMAIN sessions \ {r} : sessions'[q] = sessions[q]
           /\ text = <<>> =>
                /\ emitted' = <<>>
                /\ sessions' = sessions
                /\ files' = files ]_vars

\* C16 witness: a padded text came back for a job whose room had a session
\* with an entry; the session's last entry is the trimmed text.
C16_Witness ==
  /\ lastOp.op = "providerDone"
  /\ lastOp.ok
  /\ lastOp.txt = TxtOk
  /\ Len(emitted) = 1
  /\ lastOp.roomId \in DOMAIN sessions
  /\ LET list == sessions[lastOp.roomId].transcriptions
     IN /\ Len(list) >= 2
        /\ list[Len(list)].text = <<"O","k">>

\* C17: when the constructor returns, the provider is the configured one,
\* or local-whisper for a groq configuration without API key, and a groq
\* client exists exactly for a groq configuration with a key; provider and
\* client never change afterwards; every provider call in flight went to the
\* variant this.provider names, and a groq call is made only with a client.
C17_ProviderFixedAtConstruction ==
  /\ [](lastOp.op = "constructor" =>
          /\ provider = IF lastOp.configProvider = "groq" /\ lastOp.apiKey = ""
                        THEN "local-whisper" ELSE lastOp.configProvider
          /\ groq <=> (lastOp.configProvider = "groq" /\ lastOp.apiKey # ""))
  /\ [][provider' = provider /\ groq' = groq]_vars
  /\ [](\A c \in calls : c.variant = provider /\ (c.variant = "groq" => groq))

\* C17 witness: the constructor returned for a groq configuration without
\* API key.
C17_Witness ==
  /\ lastOp.op = "constructor"
  /\ lastOp.configProvider = "groq"
  /\ lastOp.apiKey = ""
  /\ provider = "local-whisper"
  /\ ~groq

\* C18: removePeer leaves the queue, the worker and the provider call in
\* flight as they are, and a job is admitted for a socket id only while that
\* socket id is in this.peers: none after removePeer of it returned.
C18_NoJobAfterRemoval ==
  [][ /\ lastOp'.op = "removePeer" =>
           UNCHANGED <<queue, isProcessing, calls, handed, evicted>>
      /\ (lastOp'.op = "ondata" /\ lastOp'.admitted) =>
           lastOp'.socketId \in DOMAIN peers ]_vars

\* C19: a sink.ondata step writes no file: the temporary directory is the
\* same after the step as before it.
C19_OnDataWritesNoFile ==
  [][ lastOp'.op = "ondata" => tmpFiles' = tmpFiles ]_vars

\* C20: the file of every open session is the document of that session, with
\* the transcript list the session holds in memory and no end time; from one
\* state to the next the list of a session that stays open is unchanged or
\* one entry longer at its end.
C20_FileMirrorsSession ==
  /\ [](\A r \in DOMAIN sessions :
          LET session == sessions[r]
          IN /\ session.filePath \in DOMAIN files
             /\ files[session.filePath] =
                  [room |-> r, startedAt |-> ToISOString(session.startedAt),
                   endedAt |-> NoTime,
                   transcriptions |-> session.transcriptions])
  /\ [][ \A r \in DOMAIN sessions \cap DOMAIN sessions' :
           LET old == sessions[r].transcriptions
               new == sessions'[r].transcriptions
           IN \/ new = old
              \/ /\ Len(new) = Len(old) + 1
                 /\ SubSeq(new, 1, Len(old)) = old ]_vars

\* C20 witness: saveTranscription has just added a second entry to an open
\* session, and the file lists both.
C20_Witness ==
  /\ lastOp.op = "providerDone"
  /\ Len(emitted) = 1
  /\ lastOp.roomId \in DOMAIN sessions
  /\ Len(sessions[lastOp.roomId].transcriptions) = 2
  /\ Len(files[sessions[lastOp.roomId].filePath].transcriptions) = 2

\* The temporary path of the job a step takes from the queue: the head of
\* the queue, or the job the step admitted to an empty queue.
DequeuedPath ==
  WavPath(IF queue # <<>> THEN Head(queue).socketId ELSE lastOp'.socketId, now)

\* C21: a step that starts a provider call has written the job's container
\* to the call's temporary path; a step that takes a job from the queue
\* starts its provider call or issues the removal of its temporary path; a
\* step that completes a provider call issues the removal of its path; and
\* every temporary file belongs to a call in flight or awaits its removal.
C21_TmpFileWrittenThenRemoved ==
  /\ [][ /\ \A c \in calls' \ calls :
              /\ c.wavPath \in DOMAIN tmpFiles'
              /\ tmpFiles'[c.wavPath] =
                   writeWav(c.item.audioBuffer, c.item.sampleRate,
                            c.item.channelCount)
         /\ Len(handed') > Len(handed) =>
              \/ \E c \in calls' : /\ c.item.id = handed'[Len(handed')]
                                   /\ c.wavPath = DequeuedPath
              \/ DequeuedPath \in unlinks'
         /\ lastOp'.op = "providerDone" =>
              \A c \in calls : c.item.id = lastOp'.id => c.wavPath \in unlinks'
       ]_vars
  /\ [](\A path \in DOMAIN tmpFiles :
          path \in unlinks \/ \E c \in calls : c.wavPath = path)

\* The mean absolute value of the samples of a buffer exceeds x.
MeanAbsExceeds(pcmBuffer, x) ==
  LET total == NumSamples(pcmBuffer)
      Weighted(i) == pcmBuffer[i].n * Abs(pcmBuffer[i].a)
      Sum[k \in 0..Len(pcmBuffer)] ==
        IF k = 0 THEN 0 ELSE Sum[k - 1] + Weighted(k)
  IN total > 0 /\ Sum[Len(pcmBuffer)] > x * total

\* C22: the decision taken on a flushed segment is the value of
\* hasVoiceActivity on that segment and nothing else: a segment of zeros is
\* rejected, a segment whose mean absolute sample value exceeds 50 is
\* admitted; the buffers admitted earlier are still accepted when evaluated
\* again; and the evaluation itself changes nothing: after a rejection only
\* the peer's buffer differs.
C22_GateIsPureFunction ==
  /\ [][ (lastOp'.op = "ondata" /\ lastOp'.present /\ lastOp'.flushed) =>
           LET segment == Segment(peers[lastOp'.socketId], lastOp'.data)
           IN /\ lastOp'.admitted <=> hasVoiceActivity(segment)
              /\ (\A i \in 1..Len(segment) : segment[i].a = 0)
                   => ~lastOp'.admitted
              /\ MeanAbsExceeds(segment, 50) => lastOp'.admitted
              /\ ~lastOp'.admitted =>
                   UNCHANGED <<queue, isProcessing, calls, tmpFiles, sessions,
                               files, nextId>> ]_vars
  /\ [](/\ \A c \in calls : hasVoiceActivity(c.item.audioBuffer)
        /\ \A i \in 1..Len(queue) : hasVoiceActivity(queue[i].audioBuffer))

\* C22 witness: a segment of a zero half and a half of -20000 was admitted
\* while an admitted buffer waited in the queue.
C22_Witness ==
  /\ lastOp.op = "ondata"
  /\ lastOp.flushed
  /\ lastOp.admitted
  /\ lastOp.data.a = -20000
  /\ queue # <<>>
  /\ LET b == queue[Len(queue)].audioBuffer
     IN Len(b) = 2 /\ b[1].a = 0

\* The unsigned 32-bit little-endian field that starts at byte offset of a
\* header given as 16-bit words, and the 16-bit one.
ReadUInt32LE(header, offset) ==
  header[offset \div 2 + 1] + 65536 * header[offset \div 2 + 2]

ReadUInt16LE(header, offset) == header[offset \div 2 + 1]

\* C23: the file written for a job with rate R, channel count C and payload
\* P has a header of 44 bytes that declares PCM, C channels, rate R, byte
\* rate R*C*2, block align C*2, 16 bits per sample, data length len(P) and
\* file size 36 + len(P), followed by P itself.
C23_ContainerRoundTrip ==
  [][ \A c \in calls' \ calls :
        LET file == tmpFiles'[c.wavPath]
            R == c.item.sampleRate
            C == c.item.channelCount
            P == c.item.audioBuffer
        IN /\ Len(file.header) * 2 = 44
           /\ ReadUInt32LE(file.header, 4) = 36 + ByteLength(P)
           /\ ReadUInt16LE(file.header, 20) = 1
           /\ ReadUInt16LE(file.header, 22) = C
           /\ ReadUInt32LE(file.header, 24) = R
           /\ ReadUInt32LE(file.header, 28) = R * C * 2
           /\ ReadUInt16LE(file.header, 32) = C * 2
           /\ ReadUInt16LE(file.header, 34) = 16
           /\ ReadUInt32LE(file.header, 40) = ByteLength(P)
           /\ file.data = P
           /\ ByteLength(file.data) = ReadUInt32LE(file.header, 40) ]_vars

\* C23 witness: a stereo 48000 Hz payload of an odd number of samples, longer
\* than 65535 bytes, is in its file while the provider reads it.
C23_Witness ==
  \E c \in calls :
    /\ c.item.sampleRate = 48000
    /\ c.item.channelCount = 2
    /\ NumSamples(c.item.audioBuffer) = 240001
    /\ c.wavPath \in DOMAIN tmpFiles
    /\ tmpFiles[c.wavPath].data = c.item.audioBuffer

\* The ids of the jobs admitted so far that the worker or the overflow check
\* has taken from the queue.
Taken == {handed[i] : i \in 1..Len(handed)} \cup
         {evicted[i] : i \in 1..Len(evicted)}

Idle == ~isProcessing /\ queue = <<>>

\* C24: with provider calls that settle, the worker is marked busy only
\* while a provider call is in flight, every queued job is eventually taken
\* by the worker or evicted, and once no more jobs are admitted the worker
\* becomes idle and stays idle.
C24_WorkerDrainsToIdle ==
  /\ [](isProcessing => calls # {})
  /\ \A id \in 1..MaxJobs :
       (\E i \in 1..Len(queue) : queue[i].id = id) ~> (id \in Taken)
  /\ <>[]Idle

\* The step appended one entry with this user id and text to the session of
\* room r.
Appended(r, userId, text) ==
  /\ r \in DOMAIN sessions
  /\ r \in DOMAIN sessions'
  /\ LET old == sessions[r].transcriptions
         new == sessions'[r].transcriptions
     IN /\ Len(new) = Len(old) + 1
        /\ new[Len(new)].userId = userId
        /\ new[Len(new)].text = text

\* C25: a step that completes a provider call emits a transcription to the
\* job's room exactly when it appends an entry with the same user id and
\* text to that room's session.
C25_BroadcastIffPersisted ==
  [][ lastOp'.op = "providerDone" =>
        /\ Len(emitted') <= 1
        /\ \A i \in 1..Len(emitted') :
             /\ emitted'[i].room = lastOp'.roomId
             /\ Appended(lastOp'.roomId, emitted'[i].userId, emitted'[i].text)
        /\ emitted' = <<>> => sessions' = sessions ]_vars

\* C26: a step that completes a provider call appends an entry to the
\* session of the job's room only, and only if that session is the one the
\* room had when the job was enqueued: it has the start time of that one.
C26_EntryGoesToSessionOfItsAudio ==
  [][ lastOp'.op = "providerDone" =>
        LET item == (CHOOSE c \in calls : c.item.id = lastOp'.id).item
        IN \A r \in DOMAIN sessions \cap DOMAIN sessions' :
             Len(sessions'[r].transcriptions) > Len(sessions[r].transcriptions)
               => /\ r = item.roomId
                  /\ sessions[r].startedAt = item.sessionStartedAt ]_vars

\* C27: when cleanup returns, this.peers is empty, no session is open, and
\* the file of every session that was open carries an end time.
C27_CleanupClosesEverything ==
  [][ lastOp'.op = "cleanup" =>
        /\ DOMAIN peers' = {}
        /\ DOMAIN sessions' = {}
        /\ \A r \in DOMAIN sessions :
             files'[sessions[r].filePath].endedAt # NoTime ]_vars

====
